---- MODULE Spec2Model ----
(***************************************************************************)
(* The in-memory record stores of python-restapi-tutorial:                 *)
(*   src/app.py          Todo service (TodoManager + Flask routes)         *)
(*   src/bk_app.py       the earlier copy of the Todo service              *)
(*   src/todo_api/app.py Items service (module-level list + routes)        *)
(* Each module is a program of its own and has a specification of its own: *)
(* Spec (src/app.py), SpecBk (src/bk_app.py), SpecItems (todo_api).        *)
(***************************************************************************)
EXTENDS Integers, Sequences, FiniteSets, TLC

VARIABLES
    todos,      \* TodoManager.todos: list of Todo objects
    next_id,    \* TodoManager.next_id
    items,      \* todo_api: the module-level items list
    item_next_id, \* todo_api: the module-level next_id counter
    last,       \* the last request served and its response
    pre,        \* the store as it was when the last request arrived
    assigned,   \* ids of the records created so far, in creation order
    deleted     \* ids whose DELETE was answered with success

vars == <<todos, next_id, items, item_next_id, last, pre, assigned, deleted>>

\* Largest value next_id may have when a POST is still served.
MaxId == 3

\* ---------------------------------------------------------------- values

\* Python's None, as returned by the manager methods.
None == [none |-> TRUE]

\* `not s` for a str: the empty string is the only falsy one.
not_str(s) == s = ""

\* `not d` for a dict (request.json, new_data): the empty dict is falsy.
not_dict(d) == DOMAIN d = {}

\* The JSON object {}.
EmptyJson == [k \in {} |-> ""]

Todo(id, title, description, completed) ==
    [id |-> id, title |-> title, description |-> description,
     completed |-> completed]

to_dict(todo) ==
    [id |-> todo.id, title |-> todo.title,
     description |-> todo.description, completed |-> todo.completed]

\* A merge that takes the absent "completed" key for False.
update_from_dict_default_completed(todo, data) ==
    [id |-> todo.id,
     title |-> IF "title" \in DOMAIN data THEN data["title"] ELSE todo.title,
     description |-> IF "description" \in DOMAIN data
                     THEN data["description"] ELSE todo.description,
     completed |-> IF "completed" \in DOMAIN data
                   THEN data["completed"] ELSE FALSE]

update_from_dict(todo, data) ==
    [id |-> todo.id,
     title |-> IF "title" \in DOMAIN data THEN data["title"] ELSE todo.title,
     description |-> IF "description" \in DOMAIN data
                     THEN data["description"] ELSE todo.description,
     completed |-> IF "completed" \in DOMAIN data
                   THEN data["completed"] ELSE todo.completed]

\* ------------------------------------------------- TodoManager (src/app.py)
\* A manager is [todos, next_id]; a method yields the manager after the
\* call and the value returned.  A returned Todo is a reference into the
\* list: its position in todos, 0 standing for None.

\* An add that numbers the new record by the length of the list.
add_todo_id_from_len(self, title, description, completed) ==
    IF not_str(title) \/ not_str(description)
    THEN [self |-> self, ret |-> None, raised |-> TRUE]
    ELSE LET todo == Todo(Len(self.todos) + 1, title, description, completed)
         IN  [self |-> [todos |-> Append(self.todos, todo),
                        next_id |-> self.next_id + 1],
              ret |-> todo, raised |-> FALSE]

\* An add that takes the next id before it validates.
add_todo_counts_first(self, title, description, completed) ==
    IF not_str(title) \/ not_str(description)
    THEN [self |-> [self EXCEPT !.next_id = self.next_id + 1],
          ret |-> None, raised |-> TRUE]
    ELSE LET todo == Todo(self.next_id, title, description, completed)
         IN  [self |-> [todos |-> Append(self.todos, todo),
                        next_id |-> self.next_id + 1],
              ret |-> todo, raised |-> FALSE]

\* An add that puts the new record first.
add_todo_prepends(self, title, description, completed) ==
    IF not_str(title) \/ not_str(description)
    THEN [self |-> self, ret |-> None, raised |-> TRUE]
    ELSE LET todo == Todo(self.next_id, title, description, completed)
         IN  [self |-> [todos |-> <<todo>> \o self.todos,
                        next_id |-> self.next_id + 1],
              ret |-> todo, raised |-> FALSE]

add_todo(self, title, description, completed) ==
    IF not_str(title) \/ not_str(description)
    THEN [self |-> self, ret |-> None, raised |-> TRUE]
    ELSE LET todo == Todo(self.next_id, title, description, completed)
         IN  [self |-> [todos |-> Append(self.todos, todo),
                        next_id |-> self.next_id + 1],
              ret |-> todo, raised |-> FALSE]

get_all_todos(self) == [i \in 1..Len(self.todos) |-> to_dict(self.todos[i])]

\* The loop returns in its first iteration, match or not; on an empty list
\* it falls through and returns None implicitly.
get_todo_by_id(self, todo_id) ==
    IF Len(self.todos) = 0 THEN 0
    ELSE IF self.todos[1].id = todo_id THEN 1 ELSE 0

update_todo(self, todo_id, new_data) ==
    LET ref == get_todo_by_id(self, todo_id)
    IN  IF ref = 0 THEN [self |-> self, ret |-> None]
        ELSE IF not_dict(new_data) THEN [self |-> self, ret |-> None]
        ELSE LET upd == update_from_dict(self.todos[ref], new_data)
             IN  [self |-> [self EXCEPT !.todos[ref] = upd],
                  ret |-> to_dict(upd)]

\* A delete that takes todo_id for the position of the record.
delete_todo_by_position(self, todo_id) ==
    LET kept == IF todo_id \in 1..Len(self.todos)
                THEN SubSeq(self.todos, 1, todo_id - 1)
                     \o SubSeq(self.todos, todo_id + 1, Len(self.todos))
                ELSE self.todos
    IN  [self |-> [self EXCEPT !.todos = kept],
         ret |-> Len(kept) < Len(self.todos)]

delete_todo(self, todo_id) ==
    LET kept == SelectSeq(self.todos, LAMBDA todo : todo.id # todo_id)
    IN  [self |-> [self EXCEPT !.todos = kept],
         ret |-> Len(kept) < Len(self.todos)]

\* TodoManager.__init__: an empty store, then the two dummy records.
TodoManager ==
    LET s0 == [todos |-> <<>>, next_id |-> 1]
        s1 == add_todo(s0, "Learn Flask",
                  "Understand the basics of Flask framework.", FALSE).self
    IN  add_todo(s1, "Build API",
                  "Create a RESTful API for a ToDo list.", FALSE).self

\* ---------------------------------------------- TodoManager (src/bk_app.py)

bk_add_todo(self, title, description, completed) ==
    IF not_str(title) \/ not_str(description)
    THEN [self |-> self, ret |-> None]
    ELSE LET todo == Todo(self.next_id, title, description, completed)
         IN  [self |-> [todos |-> Append(self.todos, todo),
                        next_id |-> self.next_id + 1],
              ret |-> todo]

RECURSIVE bk_scan(_, _, _)
bk_scan(lst, todo_id, i) ==
    IF i > Len(lst) THEN 0
    ELSE IF lst[i].id = todo_id THEN i
    ELSE bk_scan(lst, todo_id, i + 1)

bk_get_todo_by_id(self, todo_id) == bk_scan(self.todos, todo_id, 1)

bk_update_todo(self, todo_id, new_data) ==
    LET ref == bk_get_todo_by_id(self, todo_id)
    IN  IF ref = 0 THEN [self |-> self, ret |-> None]
        ELSE IF not_dict(new_data) THEN [self |-> self, ret |-> None]
        ELSE LET upd == update_from_dict(self.todos[ref], new_data)
             IN  [self |-> [self EXCEPT !.todos[ref] = upd],
                  ret |-> to_dict(upd)]

bk_TodoManager ==
    LET s0 == [todos |-> <<>>, next_id |-> 1]
        s1 == bk_add_todo(s0, "Learn Flask",
                  "Understand the basics of Flask framework.", FALSE).self
    IN  bk_add_todo(s1, "Build API",
                  "Create a RESTful API for a ToDo list.", FALSE).self

\* --------------------------------------------------------------- requests

\* Ids a client asks for: every id the store can hold and one it never has.
TodoIds == 1..(MaxId + 1)

\* JSON bodies of POST /todos.
CreateBodies ==
    { EmptyJson,
      [title |-> "T"],
      [description |-> "D"],
      [title |-> "T", description |-> "D"],
      [title |-> "T", description |-> "D", completed |-> TRUE],
      [title |-> "", description |-> "D"],
      [title |-> "T", description |-> ""],
      [title |-> "", description |-> "", completed |-> TRUE] }

\* JSON bodies of PUT /todos/<id>.
UpdateBodies ==
    { EmptyJson,
      [completed |-> TRUE],
      [completed |-> FALSE],
      [title |-> "T2"],
      [title |-> ""],
      [description |-> ""],
      [description |-> "D2", completed |-> TRUE],
      [title |-> "T2", description |-> "D2", completed |-> TRUE],
      [id |-> 9],
      [id |-> 9, title |-> "T2"] }

Store == [todos |-> todos, next_id |-> next_id]

Snapshot ==
    [todos |-> todos, next_id |-> next_id,
     items |-> items, item_next_id |-> item_next_id]

\* abort(code): the error handler's JSON answer.
Abort(code) == [error |-> code]

\* ------------------------------------------------------ routes (src/app.py)

route_get_todos ==
    /\ last' = [op |-> "get_todos", status |-> 200,
                body |-> get_all_todos(Store)]
    /\ pre' = Snapshot
    /\ UNCHANGED <<todos, next_id, items, item_next_id, assigned, deleted>>

route_get_todo ==
    /\ \E todo_id \in TodoIds :
         LET ref == get_todo_by_id(Store, todo_id)
         IN  last' = IF ref = 0
                     THEN [op |-> "get_todo", todo_id |-> todo_id,
                           ret |-> None, status |-> 404, body |-> Abort(404)]
                     ELSE [op |-> "get_todo", todo_id |-> todo_id,
                           ret |-> todos[ref], status |-> 200,
                           body |-> to_dict(todos[ref])]
    /\ pre' = Snapshot
    /\ UNCHANGED <<todos, next_id, items, item_next_id, assigned, deleted>>

route_create_todo ==
    /\ next_id <= MaxId
    /\ \E json \in CreateBodies :
         IF not_dict(json)
            \/ "title" \notin DOMAIN json \/ "description" \notin DOMAIN json
         THEN /\ last' = [op |-> "create_todo", json |-> json,
                          status |-> 400, body |-> Abort(400)]
              /\ UNCHANGED <<todos, next_id, assigned>>
         ELSE LET new_completed == IF "completed" \in DOMAIN json
                                   THEN json["completed"] ELSE FALSE
                  r == add_todo(Store, json["title"], json["description"],
                                new_completed)
              IN  /\ todos' = r.self.todos
                  /\ next_id' = r.self.next_id
                  /\ IF r.raised
                     THEN /\ last' = [op |-> "create_todo", json |-> json,
                                      status |-> 400, body |-> Abort(400)]
                          /\ UNCHANGED assigned
                     ELSE /\ last' = [op |-> "create_todo", json |-> json,
                                      status |-> 201, body |-> to_dict(r.ret)]
                          /\ assigned' = Append(assigned, r.ret.id)
    /\ pre' = Snapshot
    /\ UNCHANGED <<items, item_next_id, deleted>>

route_update_todo ==
    /\ \E todo_id \in TodoIds, json \in UpdateBodies :
         IF not_dict(json)
         THEN /\ last' = [op |-> "update_todo", todo_id |-> todo_id,
                          json |-> json, status |-> 400, body |-> Abort(400)]
              /\ UNCHANGED <<todos, next_id>>
         ELSE LET r == update_todo(Store, todo_id, json)
              IN  /\ todos' = r.self.todos
                  /\ next_id' = r.self.next_id
                  /\ last' = IF r.ret = None
                             THEN [op |-> "update_todo", todo_id |-> todo_id,
                                   json |-> json, status |-> 404,
                                   body |-> Abort(404)]
                             ELSE [op |-> "update_todo", todo_id |-> todo_id,
                                   json |-> json, status |-> 201,
                                   body |-> r.ret]
    /\ pre' = Snapshot
    /\ UNCHANGED <<items, item_next_id, assigned, deleted>>

route_delete_todo ==
    /\ \E todo_id \in TodoIds :
         LET r == delete_todo(Store, todo_id)
         IN  /\ todos' = r.self.todos
             /\ next_id' = r.self.next_id
             /\ IF ~r.ret
                THEN /\ last' = [op |-> "delete_todo", todo_id |-> todo_id,
                                 ret |-> r.ret, status |-> 404,
                                 body |-> Abort(404)]
                     /\ UNCHANGED deleted
                ELSE /\ last' = [op |-> "delete_todo", todo_id |-> todo_id,
                                 ret |-> r.ret, status |-> 204,
                                 body |-> [message |-> "Todo deleted successfully"]]
                     /\ deleted' = deleted \cup {todo_id}
    /\ pre' = Snapshot
    /\ UNCHANGED <<items, item_next_id, assigned>>

\* --------------------------------------------------- routes (src/bk_app.py)

bk_get_todos ==
    /\ last' = [op |-> "get_todos", status |-> 200,
                body |-> get_all_todos(Store)]
    /\ pre' = Snapshot
    /\ UNCHANGED <<todos, next_id, items, item_next_id, assigned, deleted>>

bk_get_todo ==
    /\ \E todo_id \in TodoIds :
         LET ref == bk_get_todo_by_id(Store, todo_id)
         IN  last' = IF ref = 0
                     THEN [op |-> "get_todo", todo_id |-> todo_id,
                           ret |-> None, status |-> 404, body |-> Abort(404)]
                     ELSE [op |-> "get_todo", todo_id |-> todo_id,
                           ret |-> todos[ref], status |-> 200,
                           body |-> to_dict(todos[ref])]
    /\ pre' = Snapshot
    /\ UNCHANGED <<todos, next_id, items, item_next_id, assigned, deleted>>

bk_create_todo ==
    /\ next_id <= MaxId
    /\ \E json \in CreateBodies :
         IF not_dict(json)
            \/ "title" \notin DOMAIN json \/ "description" \notin DOMAIN json
         THEN /\ last' = [op |-> "create_todo", json |-> json,
                          status |-> 400, body |-> Abort(400)]
              /\ UNCHANGED <<todos, next_id, assigned>>
         ELSE LET completed == IF "completed" \in DOMAIN json
                               THEN json["completed"] ELSE FALSE
                  r == bk_add_todo(Store, json["title"], json["description"],
                                   completed)
              IN  /\ todos' = r.self.todos
                  /\ next_id' = r.self.next_id
                  /\ IF r.ret = None
                     THEN /\ last' = [op |-> "create_todo", json |-> json,
                                      status |-> 400, body |-> Abort(400)]
                          /\ UNCHANGED assigned
                     ELSE /\ last' = [op |-> "create_todo", json |-> json,
                                      status |-> 201, body |-> to_dict(r.ret)]
                          /\ assigned' = Append(assigned, r.ret.id)
    /\ pre' = Snapshot
    /\ UNCHANGED <<items, item_next_id, deleted>>

bk_route_update_todo ==
    /\ \E todo_id \in TodoIds, json \in UpdateBodies :
         IF not_dict(json)
         THEN /\ last' = [op |-> "update_todo", todo_id |-> todo_id,
                          json |-> json, status |-> 400, body |-> Abort(400)]
              /\ UNCHANGED <<todos, next_id>>
         ELSE LET r == bk_update_todo(Store, todo_id, json)
              IN  /\ todos' = r.self.todos
                  /\ next_id' = r.self.next_id
                  /\ last' = IF r.ret = None
                             THEN [op |-> "update_todo", todo_id |-> todo_id,
                                   json |-> json, status |-> 404,
                                   body |-> Abort(404)]
                             ELSE [op |-> "update_todo", todo_id |-> todo_id,
                                   json |-> json, status |-> 200,
                                   body |-> r.ret]
    /\ pre' = Snapshot
    /\ UNCHANGED <<items, item_next_id, assigned, deleted>>

\* bk_app.py's TodoManager.delete_todo is the same code as app.py's.
bk_route_delete_todo ==
    /\ \E todo_id \in TodoIds :
         LET r == delete_todo(Store, todo_id)
         IN  /\ todos' = r.self.todos
             /\ next_id' = r.self.next_id
             /\ IF ~r.ret
                THEN /\ last' = [op |-> "delete_todo", todo_id |-> todo_id,
                                 ret |-> r.ret, status |-> 404,
                                 body |-> Abort(404)]
                     /\ UNCHANGED deleted
                ELSE /\ last' = [op |-> "delete_todo", todo_id |-> todo_id,
                                 ret |-> r.ret, status |-> 204,
                                 body |-> [message |-> ""]]
                     /\ deleted' = deleted \cup {todo_id}
    /\ pre' = Snapshot
    /\ UNCHANGED <<items, item_next_id, assigned>>

\* ------------------------------------------- Items (src/todo_api/app.py)
\* A str is a sequence of one-character strings, so that lower() and the
\* substring test `in` are computed as Python computes them.

UpperCase == <<"A", "B", "C", "D", "E", "F", "G", "H", "I", "J", "K", "L", "M",
               "N", "O", "P", "Q", "R", "S", "T", "U", "V", "W", "X", "Y", "Z">>
LowerCase == <<"a", "b", "c", "d", "e", "f", "g", "h", "i", "j", "k", "l", "m",
               "n", "o", "p", "q", "r", "s", "t", "u", "v", "w", "x", "y", "z">>

lower_char(c) ==
    IF \E i \in 1..Len(UpperCase) : UpperCase[i] = c
    THEN LowerCase[CHOOSE i \in 1..Len(UpperCase) : UpperCase[i] = c]
    ELSE c

\* str.lower()
lower(s) == [i \in 1..Len(s) |-> lower_char(s[i])]

\* `sub in s` for two strs
str_in(sub, s) ==
    \E i \in 0..(Len(s) - Len(sub)) :
        \A k \in 1..Len(sub) : s[i + k] = sub[k]

ItemA == <<"I", "t", "e", "m", " ", "A">>
ItemB == <<"I", "t", "e", "m", " ", "B">>
ItemC == <<"I", "t", "e", "m", " ", "C">>
FirstItem == <<"F", "i", "r", "s", "t", " ", "i", "t", "e", "m">>
SecondItem == <<"S", "e", "c", "o", "n", "d", " ", "i", "t", "e", "m">>

\* The module-level items list and next_id counter as the module sets them.
items_init ==
    << [id |-> 1, name |-> ItemA, description |-> FirstItem],
       [id |-> 2, name |-> ItemB, description |-> SecondItem] >>
next_id_init == 3

\* request.args.get(key) is None when the parameter is absent, and
\* `if target:` is false for None and for "".
arg_given(args, key) == key \in DOMAIN args /\ args[key] # <<>>

\* Query strings of GET /items/search.
NameFilters == { <<>>, <<"i", "t", "e", "m", " ", "a">>, <<"I", "T", "E", "M">>,
                 <<"B">>, <<"m", " ", "c">> }
DescriptionFilters == { <<>>, <<"f", "i", "r", "s", "t">>, <<"I", "T", "E", "M">>,
                        <<"N", "e", "w">>, <<"t", "e", "n">> }
SearchArgs ==
    { EmptyJson }
    \cup { [name |-> n] : n \in NameFilters }
    \cup { [description |-> d] : d \in DescriptionFilters }
    \cup { [name |-> n, description |-> d] :
             n \in NameFilters, d \in DescriptionFilters }

\* JSON bodies of POST /items.
ItemNames == { <<>>, ItemA, ItemB, ItemC, <<"i", "t", "e", "m", " ", "a">> }
ItemDescriptions == { <<>>, <<"N", "e", "w">>, FirstItem }
ItemBodies ==
    { EmptyJson }
    \cup { [name |-> n] : n \in ItemNames }
    \cup { [description |-> d] : d \in ItemDescriptions }
    \cup { [name |-> n, description |-> d] :
             n \in ItemNames, d \in ItemDescriptions }

ItemIds == 1..(MaxId + 1)

get_items ==
    /\ last' = [op |-> "get_items", status |-> 200, body |-> items]
    /\ pre' = Snapshot
    /\ UNCHANGED <<todos, next_id, items, item_next_id, assigned, deleted>>

\* next(generator, None): the first item with the id, None if there is none.
first_with_id(lst, item_id) ==
    IF \E i \in 1..Len(lst) : lst[i].id = item_id
    THEN CHOOSE i \in 1..Len(lst) :
            /\ lst[i].id = item_id
            /\ \A j \in 1..(i - 1) : lst[j].id # item_id
    ELSE 0

get_selected_item ==
    /\ \E item_id \in ItemIds :
         LET ref == first_with_id(items, item_id)
         IN  last' = IF ref = 0
                     THEN [op |-> "get_selected_item", item_id |-> item_id,
                           status |-> 404, body |-> Abort(404)]
                     ELSE [op |-> "get_selected_item", item_id |-> item_id,
                           status |-> 200, body |-> items[ref]]
    /\ pre' = Snapshot
    /\ UNCHANGED <<todos, next_id, items, item_next_id, assigned, deleted>>

\* A search whose description filter starts again from the whole list.
filtered_items_desc_overrides(lst, args) ==
    LET by_name ==
            IF arg_given(args, "name")
            THEN LET lower_target_name == lower(args["name"])
                 IN  SelectSeq(lst, LAMBDA item :
                         str_in(lower_target_name, lower(item.name)))
            ELSE lst
    IN  IF arg_given(args, "description")
        THEN LET lower_target_description == lower(args["description"])
             IN  SelectSeq(lst, LAMBDA item :
                     str_in(lower_target_description, lower(item.description)))
        ELSE by_name

\* The list the search route hands to jsonify.
filtered_items(lst, args) ==
    LET by_name ==
            IF arg_given(args, "name")
            THEN LET lower_target_name == lower(args["name"])
                 IN  SelectSeq(lst, LAMBDA item :
                         str_in(lower_target_name, lower(item.name)))
            ELSE lst
    IN  IF arg_given(args, "description")
        THEN LET lower_target_description == lower(args["description"])
             IN  SelectSeq(by_name, LAMBDA item :
                     str_in(lower_target_description, lower(item.description)))
        ELSE by_name

search_items ==
    /\ \E args \in SearchArgs :
         last' = [op |-> "search_items", args |-> args, status |-> 200,
                  body |-> filtered_items(items, args)]
    /\ pre' = Snapshot
    /\ UNCHANGED <<todos, next_id, items, item_next_id, assigned, deleted>>

\* The flag the route computes before deciding on 409.
check_duplicate_name(lst, json) ==
    ~ \E i \in 1..Len(lst) : lst[i].name = json["name"]

add_item ==
    /\ item_next_id <= MaxId
    /\ \E json \in ItemBodies :
         IF not_dict(json)
         THEN /\ last' = [op |-> "add_item", json |-> json, status |-> 400,
                          body |-> [error |-> "Request must be JSON"]]
              /\ UNCHANGED <<items, item_next_id>>
         ELSE IF "name" \notin DOMAIN json \/ "description" \notin DOMAIN json
         THEN /\ last' = [op |-> "add_item", json |-> json, status |-> 400,
                          body |-> [error |-> "Missing 'name' or 'description'"]]
              /\ UNCHANGED <<items, item_next_id>>
         ELSE IF json["name"] = <<>> \/ json["description"] = <<>>
         THEN /\ last' = [op |-> "add_item", json |-> json, status |-> 400,
                          body |-> [error |-> "Bad Request."]]
              /\ UNCHANGED <<items, item_next_id>>
         ELSE IF check_duplicate_name(items, json)
         THEN /\ last' = [op |-> "add_item", json |-> json, status |-> 409,
                          body |-> [error |-> "The input data already exists."]]
              /\ UNCHANGED <<items, item_next_id>>
         ELSE LET new_item == [id |-> item_next_id, name |-> json["name"],
                               description |-> json["description"]]
              IN  /\ items' = Append(items, new_item)
                  /\ item_next_id' = item_next_id + 1
                  /\ last' = [op |-> "add_item", json |-> json,
                              status |-> 201, body |-> new_item]
    /\ pre' = Snapshot
    /\ UNCHANGED <<todos, next_id, assigned, deleted>>

\* ------------------------------------------------------------------- spec

Start == [op |-> "start", status |-> 0]

\* src/app.py once imported: todo_manager = TodoManager().
Init ==
    /\ todos = TodoManager.todos
    /\ next_id = TodoManager.next_id
    /\ items = <<>>
    /\ item_next_id = 0
    /\ last = Start
    /\ pre = Snapshot
    /\ assigned = [i \in 1..Len(todos) |-> todos[i].id]
    /\ deleted = {}

Next ==
    \/ route_get_todos
    \/ route_get_todo
    \/ route_create_todo
    \/ route_update_todo
    \/ route_delete_todo

Spec == Init /\ [][Next]_vars

\* src/bk_app.py once imported.
InitBk ==
    /\ todos = bk_TodoManager.todos
    /\ next_id = bk_TodoManager.next_id
    /\ items = <<>>
    /\ item_next_id = 0
    /\ last = Start
    /\ pre = Snapshot
    /\ assigned = [i \in 1..Len(todos) |-> todos[i].id]
    /\ deleted = {}

NextBk ==
    \/ bk_get_todos
    \/ bk_get_todo
    \/ bk_create_todo
    \/ bk_route_update_todo
    \/ bk_route_delete_todo

SpecBk == InitBk /\ [][NextBk]_vars

\* src/todo_api/app.py once imported.
InitItems ==
    /\ todos = <<>>
    /\ next_id = 0
    /\ items = items_init
    /\ item_next_id = next_id_init
    /\ last = Start
    /\ pre = Snapshot
    /\ assigned = <<>>
    /\ deleted = {}

NextItems ==
    \/ get_items
    \/ get_selected_item
    \/ search_items
    \/ add_item

SpecItems == InitItems /\ [][NextItems]_vars

\* ----------------------------------------------------------------- claims

Live(lst, id) == \E i \in 1..Len(lst) : lst[i].id = id

IdsOf(lst) == [i \in 1..Len(lst) |-> lst[i].id]

Increasing(ids) ==
    \A i, j \in 1..Len(ids) : i < j => ids[i] < ids[j]

\* lst without its k-th element
Without(lst, k) ==
    [i \in 1..(Len(lst) - 1) |-> IF i < k THEN lst[i] ELSE lst[i + 1]]

\* C1: get_todo_by_id(id) returns the record with that id whenever one is
\* in the collection, whatever its position, and not-found (None, 404)
\* only when no live record has the id.
C1_GetFindsRecord ==
    last.op = "get_todo" =>
        /\ \A i \in 1..Len(pre.todos) :
              pre.todos[i].id = last.todo_id =>
                  /\ last.ret = pre.todos[i]
                  /\ last.status = 200
        /\ (last.ret = None \/ last.status = 404)
              => ~Live(pre.todos, last.todo_id)

\* C2: every successful add gets an id strictly greater than every id
\* assigned before it (deleted ones included), no two live records share
\* an id, and an update leaves every id where it was, also when the
\* payload carries an "id" key.
C2_IdsMonotoneUniqueImmutable ==
    /\ Increasing(assigned)
    /\ \A i, j \in 1..Len(todos) : i # j => todos[i].id # todos[j].id
    /\ \A i \in 1..Len(todos) :
          \E k \in 1..Len(assigned) : assigned[k] = todos[i].id
    /\ (last.op = "create_todo" /\ last.status = 201) =>
          /\ \A i \in 1..Len(pre.todos) : pre.todos[i].id < last.body.id
          /\ \A id \in deleted : id < last.body.id
    /\ last.op = "update_todo" => IdsOf(todos) = IdsOf(pre.todos)

\* An update carrying an "id" key succeeded after an add and a delete.
C2_Witness ==
    /\ last.op = "update_todo"
    /\ last.status = 201
    /\ "id" \in DOMAIN last.json
    /\ Len(assigned) > 2
    /\ deleted # {}

\* C3: update answers 404 exactly when no live record has the id; an empty
\* payload is answered 400 and changes nothing; a non-empty payload on a
\* present id is answered 200 with the updated record.
C3_UpdateStatus ==
    last.op = "update_todo" =>
        /\ not_dict(last.json) =>
              /\ last.status = 400
              /\ todos = pre.todos
        /\ ~not_dict(last.json) =>
              (last.status = 404 <=> ~Live(pre.todos, last.todo_id))
        /\ (~not_dict(last.json) /\ Live(pre.todos, last.todo_id)) =>
              /\ last.status = 200
              /\ last.body.id = last.todo_id
              /\ \E i \in 1..Len(todos) : to_dict(todos[i]) = last.body

\* C4: a successful update overwrites, on the record with the id, exactly
\* the fields among title, description, completed whose keys the payload
\* holds; that record's other fields, every other record, the order of the
\* collection and next_id stay as they were.
C4_UpdateFrame ==
    (last.op = "update_todo" /\ last.status \in {200, 201}) =>
        /\ Len(todos) = Len(pre.todos)
        /\ next_id = pre.next_id
        /\ Live(pre.todos, last.todo_id)
        /\ \A i \in 1..Len(pre.todos) :
              LET old == pre.todos[i]
                  new == todos[i]
              IN  IF old.id = last.todo_id
                  THEN /\ new.id = old.id
                       /\ new.title = IF "title" \in DOMAIN last.json
                                      THEN last.json["title"] ELSE old.title
                       /\ new.description =
                              IF "description" \in DOMAIN last.json
                              THEN last.json["description"]
                              ELSE old.description
                       /\ new.completed =
                              IF "completed" \in DOMAIN last.json
                              THEN last.json["completed"] ELSE old.completed
                       /\ last.body = to_dict(new)
                  ELSE new = old

\* update(1, {"title": "T2"}) on a record that was completed before:
\* only the title changes.
C4_Witness ==
    /\ last.op = "update_todo"
    /\ last.status = 201
    /\ DOMAIN last.json = {"title"}
    /\ Len(todos) = 3
    /\ todos[1].title = "T2"
    /\ todos[1].completed = TRUE
    /\ pre.todos[1].completed = TRUE
    /\ pre.todos[1].title = "Learn Flask"

\* C5: delete_todo(id) returns true exactly when a live record has the id;
\* then the collection shrinks by one, get(id) is not-found, the other
\* records keep fields and order; otherwise (404) nothing changes.  After
\* seeding ids 1 and 2, delete(1) leaves only the record with id 2.
C5_Delete ==
    last.op = "delete_todo" =>
        /\ last.ret <=> Live(pre.todos, last.todo_id)
        /\ next_id = pre.next_id
        /\ last.ret =>
              /\ last.status = 204
              /\ Len(todos) = Len(pre.todos) - 1
              /\ get_todo_by_id(Store, last.todo_id) = 0
              /\ ~Live(todos, last.todo_id)
              /\ \E k \in 1..Len(pre.todos) :
                    /\ pre.todos[k].id = last.todo_id
                    /\ todos = Without(pre.todos, k)
        /\ ~last.ret =>
              /\ last.status = 404
              /\ todos = pre.todos
        /\ (pre.todos = TodoManager.todos /\ last.todo_id = 1) =>
              /\ last.ret
              /\ Len(todos) = 1
              /\ todos[1] = pre.todos[2]
              /\ todos[1].id = 2

\* A delete removed the middle one of three records.
C5_Witness ==
    /\ last.op = "delete_todo"
    /\ last.ret
    /\ last.todo_id = 2
    /\ IdsOf(pre.todos) = <<1, 2, 3>>
    /\ IdsOf(todos) = <<1, 3>>

\* C6: an add with an empty or absent title or description is answered 400
\* and changes nothing: the collection and next_id stay, so the next
\* successful add gets the id it would have got without the failed one.
C6_AddValidation ==
    last.op = "create_todo" =>
        /\ ( \/ "title" \notin DOMAIN last.json
             \/ "description" \notin DOMAIN last.json
             \/ last.json["title"] = ""
             \/ last.json["description"] = "" ) =>
              /\ last.status = 400
              /\ todos = pre.todos
              /\ next_id = pre.next_id
        /\ last.status = 201 =>
              /\ last.body.id = pre.next_id
              /\ last.body.id = assigned[Len(assigned) - 1] + 1
              /\ next_id = pre.next_id + 1

\* A POST with an empty title was refused by add_todo.
C6_Witness ==
    /\ last.op = "create_todo"
    /\ last.status = 400
    /\ DOMAIN last.json = {"title", "description"}
    /\ last.json["title"] = ""
    /\ last.json["description"] # ""
    /\ deleted # {}
    /\ next_id = 3

\* C9: every live record has a non-empty title and a non-empty
\* description, after any sequence of adds, updates and deletes.
C9_NonEmptyFields ==
    \A i \in 1..Len(todos) :
        /\ todos[i].title # ""
        /\ todos[i].description # ""

\* C10: get_all_todos lists exactly the records added and not since
\* deleted, in the order they were added, which is strictly increasing id
\* order, a new record last; the two reads change neither the collection
\* nor next_id.
C10_InsertionOrder ==
    /\ IdsOf(get_all_todos(Store))
          = SelectSeq(assigned, LAMBDA id : id \notin deleted)
    /\ Increasing(IdsOf(get_all_todos(Store)))
    /\ last.op = "get_todos" =>
          /\ Len(last.body) = Len(todos)
          /\ \A i \in 1..Len(todos) :
                /\ last.body[i].id = todos[i].id
                /\ last.body[i].title = todos[i].title
                /\ last.body[i].description = todos[i].description
                /\ last.body[i].completed = todos[i].completed
    /\ (last.op = "create_todo" /\ last.status = 201) =>
          /\ Len(todos) = Len(pre.todos) + 1
          /\ to_dict(todos[Len(todos)]) = last.body
          /\ \A i \in 1..Len(pre.todos) : todos[i] = pre.todos[i]
    /\ last.op \in {"get_todos", "get_todo"} =>
          /\ todos = pre.todos
          /\ next_id = pre.next_id

\* A listing after one add and the delete of the first record.
C10_Witness ==
    /\ last.op = "get_todos"
    /\ Len(assigned) = 3
    /\ deleted = {1}
    /\ Len(last.body) = 2
    /\ last.body[2].id = 3

\* Two letters that differ at most in case.
SameLetter(a, b) ==
    \/ a = b
    \/ \E i \in 1..Len(UpperCase) :
          /\ a \in {UpperCase[i], LowerCase[i]}
          /\ b \in {UpperCase[i], LowerCase[i]}

\* sub occurs in s, case ignored.
ContainsIgnoreCase(s, sub) ==
    \E off \in 0..(Len(s) - Len(sub)) :
        \A k \in 1..Len(sub) : SameLetter(s[off + k], sub[k])

\* The filter of a search parameter: absent and empty filter nothing.
FilterHolds(args, key, text) ==
    \/ key \notin DOMAIN args
    \/ args[key] = <<>>
    \/ ContainsIgnoreCase(text, args[key])

\* C7: search_items returns exactly the items whose name contains the
\* name filter and whose description contains the description filter,
\* case ignored, in insertion order; both filters must hold when both are
\* given, neither filters when neither is given; items is left unchanged.
C7_Search ==
    last.op = "search_items" =>
        /\ last.status = 200
        /\ last.body = SelectSeq(pre.items, LAMBDA item :
                           /\ FilterHolds(last.args, "name", item.name)
                           /\ FilterHolds(last.args, "description",
                                          item.description))
        /\ items = pre.items
        /\ item_next_id = pre.item_next_id
        /\ ( /\ DOMAIN last.args = {"name"}
             /\ last.args["name"] = <<"i", "t", "e", "m", " ", "a">>
             /\ pre.items = items_init ) => last.body = <<items_init[1]>>

\* A search with both filters kept, of three items whose descriptions all
\* match, the two whose names match too.
C7_Witness ==
    /\ last.op = "search_items"
    /\ DOMAIN last.args = {"name", "description"}
    /\ last.args["name"] = <<"i", "t", "e", "m", " ", "a">>
    /\ last.args["description"] = <<"I", "T", "E", "M">>
    /\ Len(pre.items) = 3
    /\ Len(last.body) = 2
    /\ last.body[1].id = 1

\* C8: a POST with non-empty name and description whose name no item has
\* is answered 201, appends the item under the current next_id and adds
\* one to next_id; 409 is answered exactly when an item has the name; a
\* refused request (400, 409) leaves items and next_id unchanged.
C8_AddItem ==
    last.op = "add_item" =>
        LET valid == /\ DOMAIN last.json = {"name", "description"}
                     /\ last.json["name"] # <<>>
                     /\ last.json["description"] # <<>>
            dup == \E i \in 1..Len(pre.items) :
                      pre.items[i].name = last.json["name"]
        IN  /\ (valid /\ ~dup) =>
                  /\ last.status = 201
                  /\ items = Append(pre.items,
                                [id |-> pre.item_next_id,
                                 name |-> last.json["name"],
                                 description |-> last.json["description"]])
                  /\ item_next_id = pre.item_next_id + 1
            /\ valid => (last.status = 409 <=> dup)
            /\ ~valid => last.status = 400
            /\ last.status \in {400, 409} =>
                  /\ items = pre.items
                  /\ item_next_id = pre.item_next_id
====
